---- MODULE Spec2Model ----
(***************************************************************************)
(* lambda-hooks: the variadic useHooks decorator (src/src/index.ts 86-131) *)
(* and combineHooks (src/src/types/hooks.ts 77-89).                        *)
(*                                                                         *)
(* A decorated handler is an async function.  Its code between two awaits  *)
(* runs without interruption, so every action below is one such segment:   *)
(* the call of a hook or of the lambda (the promise is created), or the    *)
(* continuation that runs when the awaited promise settles.                *)
(***************************************************************************)
EXTENDS Integers, Sequences, FiniteSets, TLC

VARIABLES
    invocations, \* concurrent invocations of the decorated handler, each its locals
    cells,       \* the state object each concurrent invocation's `state` names
    variant,     \* which useHooks of src/src/index.ts is running
    fixed,       \* history: the hook set as it was when useHooks returned
    hooksArr,    \* the arguments given to useHooks(...hooksArr)
    config,      \* the config value the caller passed as second argument, or Undefined
    hooks,       \* the merged HooksObject closed over by withHooks
    pc,          \* position of the program
    input,       \* the (event, context) the decorated handler was called with
    idx,         \* 1-based position of the for..of iterator of the running loop
    state,       \* the local `state` of one invocation
    inProgress,  \* calls whose promise has not settled yet
    calls,       \* history: every call made in the invocation, in order
    arg,         \* history: the argument of the most recent call
    last,        \* history: how the most recently settled promise settled
    thrown,      \* history: the values caught or propagated, in order
    result       \* the promise returned by the decorated handler

vars == <<invocations, cells, variant, fixed, hooksArr, config, hooks, pc, input,
          idx, state, inProgress, calls, arg, last, thrown, result>>

----------------------------------------------------------------------------
(* Bounds of the model *)

MaxPartials == 2   \* most partial hook objects in one useHooks call

NumInvocations == 2   \* invocations of one decorated handler in flight

----------------------------------------------------------------------------
(* Values *)

Undefined == "undefined"   \* a missing property
Absent == <<0>>            \* a field a partial hook object does not have (0 is no hook)
TypeError == "TypeError"   \* raised by a property access on undefined/null

Events == {"ev0", "ev1"}
Context == "ctx"
Responses == {"r1", "r2"}
Errors == {"e1", "e2"}
Configs == {"c1"}

Fields == {"before", "after", "onError"}

\* type HooksObject / PartialHooksObject: a record of the three fields; a
\* partial may lack any of them.
PartialsOver(F) == [before : F, after : F, onError : F]

ArraysOver(P) == UNION {[1..k -> P] : k \in 0..MaxPartials}

\* './utils/defaultHook' : the hook set with three empty lists
defaultHook == [before |-> <<>>, after |-> <<>>, onError |-> <<>>]

----------------------------------------------------------------------------
(* combineHooks *)

\* { ...defaultHook, ...hook } : a property of hook overrides defaultHook's
Spread(base, hook) ==
    [f \in Fields |-> IF hook[f] = Absent THEN base[f] ELSE hook[f]]

\* variant: the new hooks put in front of the accumulated ones
CombineStepPrepend(res, hook) ==
    LET newHook == [f \in Fields |-> IF hook[f] = Absent THEN <<>> ELSE hook[f]]
    IN  [before |-> newHook.before \o res.before,
         after |-> newHook.after \o res.after,
         onError |-> newHook.onError \o res.onError]

\* the reducer: (result, hook) => ({before: [...result.before, ...newHook.before], ...})
CombineStep(res, hook) ==
    LET newHook == Spread(defaultHook, hook)
    IN  [before |-> res.before \o newHook.before,
         after |-> res.after \o newHook.after,
         onError |-> res.onError \o newHook.onError]

\* hooks.reduce(reducer, defaultHook): left fold from the first element
RECURSIVE Reduce(_, _, _)
Reduce(arr, i, acc) ==
    IF i > Len(arr) THEN acc ELSE Reduce(arr, i + 1, CombineStep(acc, arr[i]))

combineHooks(arr) == Reduce(arr, 1, defaultHook)

----------------------------------------------------------------------------
(* The inputs the two specifications draw from *)

\* hook functions are told apart by a positive number

\* merger: every array of at most MaxPartials partials whose fields are
\* missing, empty, one hook, or two hooks
CombineFields == {Absent, <<>>, <<1>>, <<2, 1>>}

CombineInputs == ArraysOver(PartialsOver(CombineFields))

\* executor: useHooks(p1, ..., pk), the k-th partial giving a field one hook
\* of its own or lacking the field ...
RunField(p) == {Absent, <<10 * p + 1>>}

RECURSIVE RunArrays(_)
RunArrays(k) ==
    IF k = 0 THEN {<<>>}
    ELSE {Append(a, p) : a \in RunArrays(k - 1), p \in PartialsOver(RunField(k))}

\* ... and useHooks(p) with every field of p missing, empty, or a list of one
\* or two hooks
OneCallFields == {Absent, <<>>, <<11>>, <<11, 12>>}

OneCallInputs == {<<p>> : p \in PartialsOver(OneCallFields)}

RunInputs == UNION {RunArrays(k) : k \in 0..MaxPartials} \cup OneCallInputs

\* useHooks(hooksObject, config) as the README calls it: the config object is
\* the second element of the rest parameter; it has none of the three fields
ConfigAsPartial(c) == [before |-> Absent, after |-> Absent, onError |-> Absent]

----------------------------------------------------------------------------
(* The state object and the calls *)

\* let state = { event, context, exit: false }
NewState(event, context) ==
    [typeof |-> "object", event |-> event, context |-> context, exit |-> FALSE,
     response |-> Undefined, error |-> Undefined, config |-> Undefined]

\* a hook that resolves to undefined/null instead of a state object
NoState ==
    [typeof |-> "undefined", event |-> Undefined, context |-> Undefined,
     exit |-> FALSE, response |-> Undefined, error |-> Undefined,
     config |-> Undefined]

\* variant: the lambda called with the inbound arguments lost
LambdaArgsNoEvent(s) ==
    [typeof |-> "arguments", event |-> Undefined, context |-> Undefined,
     exit |-> FALSE, response |-> Undefined, error |-> Undefined,
     config |-> Undefined]

\* what lambda(state.event, state.context) is given
LambdaArgs(s) ==
    [typeof |-> "arguments", event |-> s.event, context |-> s.context,
     exit |-> FALSE, response |-> Undefined, error |-> Undefined,
     config |-> Undefined]

NoArg == [NoState EXCEPT !.typeof = "none"]

HookCall(kind, i, h) == [kind |-> kind, idx |-> i, hook |-> h]
LambdaCall == [kind |-> "lambda", idx |-> 0, hook |-> 0]

Pending == [status |-> "pending", value |-> Undefined]
Resolved(v) == [status |-> "resolved", value |-> v]
Rejected(v) == [status |-> "rejected", value |-> v]

NoSettle ==
    [call |-> LambdaCall, outcome |-> "none", exit |-> FALSE, value |-> Undefined]

\* the states a hook handed s may resolve to: it may set exit, set the
\* response, and change the event
HookResults(s) ==
    {[s EXCEPT !.exit = x, !.response = r, !.event = ev] :
        x \in BOOLEAN, r \in {s.response, "r1"}, ev \in {s.event, "ev1"}}

\* the position handleUnexpectedError takes in a hook list
UnexpectedErrorHooks == <<50>>

\* statusCode: error?.statusCode ?? 500
DefaultStatusCode == 500

\* the properties of the values thrown: "e1" is a string, with neither
\* statusCode nor message; "e2" is an error object that has both
ErrorProps(e) ==
    IF e = "e2" THEN [statusCode |-> 404, message |-> "m2"]
    ELSE [primitive |-> e]

\* error?.statusCode ?? 500
StatusCodeOf(e) ==
    IF "statusCode" \in DOMAIN ErrorProps(e) THEN ErrorProps(e).statusCode
    ELSE DefaultStatusCode

\* error?.message ?? error
MessageOf(e) ==
    IF "message" \in DOMAIN ErrorProps(e) THEN ErrorProps(e).message ELSE e

\* JSON.stringify({ error: m }) for a string m; a property whose value is
\* undefined is left out
JSONStringify(m) ==
    IF m = Undefined THEN "{}" ELSE "{\"error\":\"" \o m \o "\"}"

\* variant: the response is set but exit is not
handleUnexpectedErrorNoExit(s) ==
    [s EXCEPT !.response = [statusCode |-> StatusCodeOf(s.error),
                            body |-> JSONStringify(MessageOf(s.error))]]

\* handleUnexpectedError: state.exit = true; state.response = {...};
\* return state
handleUnexpectedError(s) ==
    [s EXCEPT !.exit = TRUE,
              !.response = [statusCode |-> StatusCodeOf(s.error),
                            body |-> JSONStringify(MessageOf(s.error))]]

\* what hook c, handed s, may resolve to
HookResultsOf(c, s) ==
    IF c.hook = UnexpectedErrorHooks[1] THEN {handleUnexpectedError(s)}
    ELSE HookResults(s)

\* hooks that may throw or resolve to no state: all but handleUnexpectedError
MayMisbehave(c) == c.hook # UnexpectedErrorHooks[1]

\* what a hook that throws may have written to the state object before
HookLeftovers(s) ==
    {s, [s EXCEPT !.exit = TRUE], [s EXCEPT !.exit = TRUE, !.response = "r1"]}

----------------------------------------------------------------------------
(* Fragments of withHooks *)

\* variant: the hook is called without await
NotAwaited == TRUE

\* `await`: the async function goes on only when the awaited promise settled
Awaited == inProgress = {}

\* variant: the exit flag is never looked at
ExitIgnored(s) == FALSE

\* if (state.exit) return state.response
ExitRequested(s) == s.exit

\* variant: the shortcut taken whatever the length of the after list
EmptyAfterShortcutAlways(h) == TRUE

\* if (hooks?.after?.length === 0) return state.response
EmptyAfterShortcut(h) == Len(h.after) = 0

\* variant: the catch block iterates the after list
ErrorPhaseListAfter == "after"

\* the list the catch block iterates: for (const hook of hooks.onError!)
ErrorPhaseList == "onError"

\* variant: the catch block runs the pipeline again from the first before hook
CatchBlockRetry(s, e, by) ==
    /\ state' = [s EXCEPT !.error = e]
    /\ pc' = "before"
    /\ idx' = 1
    /\ thrown' = Append(thrown, [by |-> by, value |-> e])
    /\ result' = result

\* variant: the catch block builds a new state object, losing the response
CatchBlockDropsResponse(s, e, by) ==
    /\ state' = [s EXCEPT !.error = e, !.response = Undefined]
    /\ pc' = "onError"
    /\ idx' = 1
    /\ thrown' = Append(thrown, [by |-> by, value |-> e])
    /\ result' = result

\* variant: the catch block starts the error phase with exit cleared
CatchBlockClearsExit(s, e, by) ==
    IF s.typeof = "object"
    THEN /\ state' = [s EXCEPT !.error = e, !.exit = FALSE]
         /\ pc' = "onError"
         /\ idx' = 1
         /\ thrown' = Append(thrown, [by |-> by, value |-> e])
         /\ result' = result
    ELSE /\ state' = s
         /\ pc' = "done"
         /\ idx' = idx
         /\ thrown' = thrown \o <<[by |-> by, value |-> e],
                                  [by |-> by, value |-> TypeError]>>
         /\ result' = Rejected(TypeError)

\* variant: the catch block stores the error only on a state that is an
\* object, and starts the error phase either way
CatchBlockSkipsMissingState(s, e, by) ==
    /\ state' = IF s.typeof = "object" THEN [s EXCEPT !.error = e] ELSE s
    /\ pc' = "onError"
    /\ idx' = 1
    /\ thrown' = Append(thrown, [by |-> by, value |-> e])
    /\ result' = result

\* variant: the catch block does not store the error
CatchBlockNoError(s, e, by) ==
    /\ state' = s
    /\ pc' = "onError"
    /\ idx' = 1
    /\ thrown' = Append(thrown, [by |-> by, value |-> e])
    /\ result' = result

\* the single-config useHooks (index.ts 26-61) iterates hooks.after in its
\* catch block (index.ts 52); the variadic one hooks.onError (index.ts 120)
CatchList == IF variant = "single" THEN "after" ELSE ErrorPhaseList

\* the executor the shortcut is compared with lacks the line
\* `if (hooks?.after?.length === 0) return state.response`
HasShortcut == variant # "noShortcut"

\* state.error = error; on a state that is no object this throws a TypeError
\* inside the catch block, which nothing catches
CatchBlock(s, e, by) ==
    IF s.typeof = "object"
    THEN /\ state' = [s EXCEPT !.error = e]
         /\ pc' = "onError"
         /\ idx' = 1
         /\ thrown' = Append(thrown, [by |-> by, value |-> e])
         /\ result' = result
    ELSE /\ state' = s
         /\ pc' = "done"
         /\ idx' = idx
         /\ thrown' = thrown \o <<[by |-> by, value |-> e],
                                  [by |-> by, value |-> TypeError]>>
         /\ result' = Rejected(TypeError)

\* variant: a throw inside the catch block is swallowed and the loop goes on
PropagateSwallowed(s, e, by) ==
    /\ state' = s
    /\ pc' = pc
    /\ idx' = idx
    /\ thrown' = Append(thrown, [by |-> by, value |-> e])
    /\ result' = result

\* a throw that no try block encloses rejects the handler's promise
Propagate(s, e, by) ==
    /\ state' = s
    /\ pc' = "done"
    /\ idx' = idx
    /\ thrown' = Append(thrown, [by |-> by, value |-> e])
    /\ result' = Rejected(e)

\* variant: return state.event
ReturnOtherField(s) ==
    /\ state' = s
    /\ pc' = "done"
    /\ idx' = idx
    /\ thrown' = thrown
    /\ result' = [status |-> "resolved", value |-> s.event]

\* return state.response
Return(s) ==
    /\ state' = s
    /\ pc' = "done"
    /\ idx' = idx
    /\ thrown' = thrown
    /\ result' = Resolved(s.response)

----------------------------------------------------------------------------
(* Actions *)

\* useHooks(...hooksArr): hooks = combineHooks(hooksArr).  hooksArr is a rest
\* parameter, always an array, so the `!hooksArr` branch is never taken.
UseHooks ==
    /\ pc = "undecorated"
    /\ hooks' = combineHooks(hooksArr)
    /\ fixed' = hooks'
    /\ pc' = "decorated"
    /\ UNCHANGED <<invocations, cells, variant, hooksArr, config, input, idx,
                   state, inProgress, calls, arg, last, thrown, result>>

\* if (!hooks.before) hooks.before = [] ... : the missing fields are added
\* to the object the caller passed
NormalizeInPlace(h) == [f \in Fields |-> IF h[f] = Absent THEN <<>> ELSE h[f]]

\* the single-config useHooks(hooks) (index.ts 26-31): the closure keeps the
\* caller's object and its arrays
UseHooksSingle ==
    /\ pc = "undecorated"
    /\ variant = "single"
    /\ Len(hooksArr) = 1
    /\ hooksArr' = <<NormalizeInPlace(hooksArr[1])>>
    /\ hooks' = hooksArr'[1]
    /\ fixed' = hooks'
    /\ pc' = "decorated"
    /\ UNCHANGED <<invocations, cells, variant, config, input, idx, state,
                   inProgress, calls, arg, last, thrown, result>>

\* whether the closure's hook set is the object the caller holds: the
\* single-config useHooks closes over its parameter, combineHooks builds new
\* arrays (types/hooks.ts 83-87)
SharesCallerObject == variant = "single"

\* a hook the caller adds later
ExtraHooks == <<99>>

\* the caller, after useHooks has returned and before the handler is
\* invoked, pushes a hook onto an array of the first object it passed
CallerMutates ==
    /\ pc \in {"decorated", "ready"}
    /\ Len(hooksArr) >= 1
    /\ \A f \in Fields : \A i \in DOMAIN hooksArr[1][f] :
           hooksArr[1][f][i] # ExtraHooks[1]
    /\ \E f \in Fields :
        /\ hooksArr[1][f] # Absent
        /\ hooksArr' = [hooksArr EXCEPT ![1][f] = @ \o ExtraHooks]
    /\ hooks' = IF SharesCallerObject THEN hooksArr'[1] ELSE hooks
    /\ UNCHANGED <<invocations, cells, variant, fixed, config, pc, input, idx,
                   state, inProgress, calls, arg, last, thrown, result>>

\* withHooks(lambda): returns the async function, runs nothing
WithHooks ==
    /\ pc = "decorated"
    /\ pc' = "ready"
    /\ UNCHANGED <<invocations, cells, variant, fixed, hooksArr, config,
                   hooks, input, idx, state, inProgress, calls, arg, last,
                   thrown, result>>

\* variant: the partial hook objects are merged again at every invocation
InvokeMergesAgain ==
    /\ pc = "ready"
    /\ \E ev \in Events :
        /\ input' = [event |-> ev, context |-> Context]
        /\ state' = NewState(ev, Context)
    /\ pc' = "before"
    /\ idx' = 1
    /\ hooks' = combineHooks(hooksArr)
    /\ UNCHANGED <<invocations, cells, variant, fixed, hooksArr, config,
                   inProgress, calls, arg, last, thrown, result>>

\* the host calls the decorated handler with (event, context)
Invoke ==
    /\ pc = "ready"
    /\ \E ev \in Events :
        /\ input' = [event |-> ev, context |-> Context]
        /\ state' = NewState(ev, Context)
    /\ pc' = "before"
    /\ idx' = 1
    /\ UNCHANGED <<invocations, cells, variant, fixed, hooksArr, config,
                   hooks, inProgress, calls, arg, last, thrown, result>>

\* variant: every hook is handed a new state object
StartHookFresh(kind, list) ==
    LET c == [kind |-> kind, idx |-> idx, hook |-> list[idx]]
    IN  /\ inProgress = {}
        /\ idx <= Len(list)
        /\ calls' = Append(calls, c)
        /\ inProgress' = inProgress \cup {c}
        /\ arg' = NewState(input.event, input.context)
        /\ idx' = idx + 1
        /\ UNCHANGED <<invocations, cells, variant, fixed, hooksArr, config,
                       hooks, pc, input, state, last, thrown, result>>

\* hook(state): the call of the hook at the iterator's position
StartHook(kind, list) ==
    LET c == HookCall(kind, idx, list[idx])
    IN  /\ Awaited
        /\ idx <= Len(list)
        /\ calls' = Append(calls, c)
        /\ inProgress' = inProgress \cup {c}
        /\ arg' = state
        /\ idx' = idx + 1
        /\ UNCHANGED <<invocations, cells, variant, fixed, hooksArr, config,
                       hooks, pc, input, state, last, thrown, result>>

\* for (const hook of hooks.before!) { state = await hook(state) ...
StartBefore == pc = "before" /\ StartHook("before", hooks.before)

\* for (const hook of hooks.after!) { state = await hook(state) ...
StartAfter == pc = "after" /\ StartHook("after", hooks.after)

\* catch: for (const hook of hooks.onError!) { state = await hook(state) ...
StartOnError == pc = "onError" /\ StartHook(CatchList, hooks[CatchList])

\* state.response = await lambda(state.event, state.context): the call
CallLambda ==
    /\ pc = "before"
    /\ Awaited
    /\ idx > Len(hooks.before)
    /\ pc' = "lambda"
    /\ calls' = Append(calls, LambdaCall)
    /\ inProgress' = inProgress \cup {LambdaCall}
    /\ arg' = LambdaArgs(state)
    /\ UNCHANGED <<invocations, cells, variant, fixed, hooksArr, config,
                   hooks, input, idx, state, last, thrown, result>>

\* the lambda's promise resolves with r: state.response = r, then the
\* empty-after shortcut or the after loop
LambdaResolves ==
    /\ LambdaCall \in inProgress
    /\ inProgress' = inProgress \ {LambdaCall}
    /\ \E r \in Responses :
        LET s == [state EXCEPT !.response = r]
        IN  /\ last' = [call |-> LambdaCall, outcome |-> "resolved",
                        exit |-> FALSE, value |-> r]
            /\ IF HasShortcut /\ EmptyAfterShortcut(hooks)
               THEN Return(s)
               ELSE /\ state' = s
                    /\ pc' = "after"
                    /\ idx' = 1
                    /\ UNCHANGED <<invocations, cells, thrown, result>>
    /\ UNCHANGED <<invocations, cells, variant, fixed, hooksArr, config,
                   hooks, input, calls, arg>>

\* the lambda's promise rejects with e: the catch block
LambdaRejects ==
    /\ LambdaCall \in inProgress
    /\ inProgress' = inProgress \ {LambdaCall}
    /\ \E e \in Errors :
        /\ last' = [call |-> LambdaCall, outcome |-> "rejected",
                    exit |-> FALSE, value |-> e]
        /\ CatchBlock(state, e, LambdaCall)
    /\ UNCHANGED <<invocations, cells, variant, fixed, hooksArr, config,
                   hooks, input, calls, arg>>

\* a hook's promise resolves with a state object s: state = s, then the exit
\* check; the loop goes on otherwise
HookResolves ==
    \E c \in inProgress :
        /\ c.kind # "lambda"
        /\ inProgress' = inProgress \ {c}
        /\ \E s \in HookResultsOf(c, state) :
            /\ last' = [call |-> c, outcome |-> "resolved", exit |-> s.exit,
                        value |-> s.response]
            /\ IF ExitRequested(s)
               THEN Return(s)
               ELSE /\ state' = s
                    /\ UNCHANGED <<invocations, cells, pc, idx, thrown, result>>
        /\ UNCHANGED <<invocations, cells, variant, fixed, hooksArr, config,
                       hooks, input, calls, arg>>

\* a hook's promise resolves with undefined or null: state = undefined, and
\* reading state.exit throws a TypeError, inside the try block for a before
\* or after hook, inside the catch block for an onError hook
HookResolvesNoState ==
    \E c \in inProgress :
        /\ c.kind # "lambda"
        /\ MayMisbehave(c)
        /\ inProgress' = inProgress \ {c}
        /\ last' = [call |-> c, outcome |-> "resolved", exit |-> FALSE,
                    value |-> Undefined]
        /\ IF pc = "onError"
           THEN Propagate(NoState, TypeError, c)
           ELSE CatchBlock(NoState, TypeError, c)
        /\ UNCHANGED <<invocations, cells, variant, fixed, hooksArr, config,
                       hooks, input, calls, arg>>

\* a hook's promise rejects with e, the state object left as the hook wrote
\* it: the catch block for a before or after hook; an onError hook runs
\* inside the catch block, so its rejection propagates
HookRejects ==
    \E c \in inProgress :
        /\ c.kind # "lambda"
        /\ MayMisbehave(c)
        /\ inProgress' = inProgress \ {c}
        /\ \E e \in Errors, s \in HookLeftovers(state) :
            /\ last' = [call |-> c, outcome |-> "rejected", exit |-> s.exit,
                        value |-> e]
            /\ IF pc = "onError"
               THEN Propagate(s, e, c)
               ELSE CatchBlock(s, e, c)
        /\ UNCHANGED <<invocations, cells, variant, fixed, hooksArr, config,
                       hooks, input, calls, arg>>

\* variant: the function ends without a value once the after loop is done
ReturnAfterLoopNoValue ==
    /\ pc = "after"
    /\ inProgress = {}
    /\ idx > Len(hooks.after)
    /\ pc' = "done"
    /\ result' = [status |-> "resolved", value |-> Undefined]
    /\ UNCHANGED <<invocations, cells, variant, fixed, hooksArr, config,
                   hooks, input, idx, state, inProgress, calls, arg, last,
                   thrown>>

\* the after loop ends: return state.response
ReturnAfterLoop ==
    /\ pc = "after"
    /\ Awaited
    /\ idx > Len(hooks.after)
    /\ Return(state)
    /\ UNCHANGED <<invocations, cells, variant, fixed, hooksArr, config,
                   hooks, input, inProgress, calls, arg, last>>

\* variant: the error is thrown again once the loop of the catch block ends
RethrowAfterCatch ==
    /\ pc = "onError"
    /\ inProgress = {}
    /\ idx > Len(hooks.onError)
    /\ pc' = "done"
    /\ result' = [status |-> "rejected", value |-> state.error]
    /\ UNCHANGED <<invocations, cells, variant, fixed, hooksArr, config,
                   hooks, input, idx, state, inProgress, calls, arg, last,
                   thrown>>

\* the loop of the catch block ends: return state.response
ReturnAfterCatch ==
    /\ pc = "onError"
    /\ Awaited
    /\ idx > Len(hooks[CatchList])
    /\ Return(state)
    /\ UNCHANGED <<invocations, cells, variant, fixed, hooksArr, config,
                   hooks, input, inProgress, calls, arg, last>>

-----------------------------------------------------------------------------
(* Concurrent invocations of one decorated handler *)

\* variant: state declared outside the async function, one for all calls
StateCellShared(i) == 1

\* let state = {...} inside the async function: every call has its own
StateCell(i) == i

\* an invocation that has not been called yet; alone is history: the state
\* its own steps produce, whatever the other invocations do
IdleInvocation ==
    [pc |-> "idle", event |-> Undefined, idx |-> 0, awaiting |-> FALSE,
     arg |-> NoArg, alone |-> NoState, result |-> Pending]

\* what the hooks of the concurrent runs do to the state they are given:
\* nothing, or an early exit with a response
HookEffect(s, x) == IF x THEN [s EXCEPT !.exit = TRUE, !.response = "r1"] ELSE s

\* the hook sets the concurrent runs are decorated with
ConcInputs ==
    {<<[before |-> <<11>>, after |-> <<12>>, onError |-> <<13>>]>>,
     <<[before |-> <<11>>, after |-> Absent, onError |-> Absent]>>}

\* the list the running loop of invocation i iterates
ConcList(i) ==
    IF invocations[i].pc = "onError" THEN hooks[CatchList]
    ELSE hooks[invocations[i].pc]

\* async (event, context) => { let state = { event, context, exit: false }
ConcInvoke(i) ==
    /\ pc = "ready"
    /\ invocations[i].pc = "idle"
    /\ \E ev \in Events :
        /\ cells' = [cells EXCEPT ![StateCell(i)] = NewState(ev, Context)]
        /\ invocations' = [invocations EXCEPT ![i] =
               [@ EXCEPT !.pc = "before", !.event = ev, !.idx = 1,
                         !.alone = NewState(ev, Context)]]
    /\ UNCHANGED <<variant, fixed, hooksArr, config, hooks, pc, input, idx,
                   state, inProgress, calls, arg, last, thrown, result>>

\* hook(state): the next hook of the running loop is called
ConcStartHook(i) ==
    /\ invocations[i].pc \in {"before", "after", "onError"}
    /\ ~invocations[i].awaiting
    /\ invocations[i].idx <= Len(ConcList(i))
    /\ invocations' = [invocations EXCEPT ![i] =
           [@ EXCEPT !.awaiting = TRUE, !.idx = @ + 1,
                     !.arg = cells[StateCell(i)]]]
    /\ UNCHANGED cells
    /\ UNCHANGED <<variant, fixed, hooksArr, config, hooks, pc, input, idx,
                   state, inProgress, calls, arg, last, thrown, result>>

\* lambda(state.event, state.context)
ConcCallLambda(i) ==
    /\ invocations[i].pc = "before"
    /\ ~invocations[i].awaiting
    /\ invocations[i].idx > Len(hooks.before)
    /\ invocations' = [invocations EXCEPT ![i] =
           [@ EXCEPT !.pc = "lambda", !.awaiting = TRUE,
                     !.arg = LambdaArgs(cells[StateCell(i)])]]
    /\ UNCHANGED cells
    /\ UNCHANGED <<variant, fixed, hooksArr, config, hooks, pc, input, idx,
                   state, inProgress, calls, arg, last, thrown, result>>

\* state.response = await lambda(...); the empty-after shortcut
ConcLambdaResolves(i) ==
    /\ invocations[i].pc = "lambda"
    /\ invocations[i].awaiting
    /\ \E r \in Responses :
        LET s == [cells[StateCell(i)] EXCEPT !.response = r]
            own == [invocations[i].alone EXCEPT !.response = r]
        IN  /\ cells' = [cells EXCEPT ![StateCell(i)] = s]
            /\ invocations' = [invocations EXCEPT ![i] =
                   IF HasShortcut /\ EmptyAfterShortcut(hooks)
                   THEN [@ EXCEPT !.pc = "done", !.awaiting = FALSE,
                                  !.alone = own,
                                  !.result = Resolved(s.response)]
                   ELSE [@ EXCEPT !.pc = "after", !.awaiting = FALSE,
                                  !.idx = 1, !.alone = own]]
    /\ UNCHANGED <<variant, fixed, hooksArr, config, hooks, pc, input, idx,
                   state, inProgress, calls, arg, last, thrown, result>>

\* the lambda throws: catch (error) { state.error = error
ConcLambdaRejects(i) ==
    /\ invocations[i].pc = "lambda"
    /\ invocations[i].awaiting
    /\ \E e \in Errors :
        /\ cells' = [cells EXCEPT ![StateCell(i)].error = e]
        /\ invocations' = [invocations EXCEPT ![i] =
               [@ EXCEPT !.pc = "onError", !.awaiting = FALSE, !.idx = 1,
                         !.alone = [@ EXCEPT !.error = e]]]
    /\ UNCHANGED <<variant, fixed, hooksArr, config, hooks, pc, input, idx,
                   state, inProgress, calls, arg, last, thrown, result>>

\* state = await hook(state); if (state.exit) return state.response
ConcHookResolves(i) ==
    /\ invocations[i].pc \in {"before", "after", "onError"}
    /\ invocations[i].awaiting
    /\ \E x \in BOOLEAN :
        LET s == HookEffect(cells[StateCell(i)], x)
            own == HookEffect(invocations[i].alone, x)
        IN  /\ cells' = [cells EXCEPT ![StateCell(i)] = s]
            /\ invocations' = [invocations EXCEPT ![i] =
                   IF ExitRequested(s)
                   THEN [@ EXCEPT !.pc = "done", !.awaiting = FALSE,
                                  !.alone = own,
                                  !.result = Resolved(s.response)]
                   ELSE [@ EXCEPT !.awaiting = FALSE, !.alone = own]]
    /\ UNCHANGED <<variant, fixed, hooksArr, config, hooks, pc, input, idx,
                   state, inProgress, calls, arg, last, thrown, result>>

\* a hook throws: into the catch block, or out of the handler when the
\* hook is one the catch block called
ConcHookRejects(i) ==
    /\ invocations[i].pc \in {"before", "after", "onError"}
    /\ invocations[i].awaiting
    /\ \E e \in Errors :
        IF invocations[i].pc = "onError"
        THEN /\ invocations' = [invocations EXCEPT ![i] =
                    [@ EXCEPT !.pc = "done", !.awaiting = FALSE,
                              !.result = Rejected(e)]]
             /\ UNCHANGED cells
        ELSE /\ cells' = [cells EXCEPT ![StateCell(i)].error = e]
             /\ invocations' = [invocations EXCEPT ![i] =
                    [@ EXCEPT !.pc = "onError", !.awaiting = FALSE,
                              !.idx = 1, !.alone = [@ EXCEPT !.error = e]]]
    /\ UNCHANGED <<variant, fixed, hooksArr, config, hooks, pc, input, idx,
                   state, inProgress, calls, arg, last, thrown, result>>

\* the after loop or the loop of the catch block ends: return state.response
ConcReturn(i) ==
    /\ invocations[i].pc \in {"after", "onError"}
    /\ ~invocations[i].awaiting
    /\ invocations[i].idx > Len(ConcList(i))
    /\ invocations' = [invocations EXCEPT ![i] =
           [@ EXCEPT !.pc = "done",
                     !.result = Resolved(cells[StateCell(i)].response)]]
    /\ UNCHANGED cells
    /\ UNCHANGED <<variant, fixed, hooksArr, config, hooks, pc, input, idx,
                   state, inProgress, calls, arg, last, thrown, result>>

Invoked == \E i \in 1..NumInvocations : ConcInvoke(i)

HookStarted == \E i \in 1..NumInvocations : ConcStartHook(i)

LambdaCalled == \E i \in 1..NumInvocations : ConcCallLambda(i)

LambdaResolved == \E i \in 1..NumInvocations : ConcLambdaResolves(i)

LambdaRejected == \E i \in 1..NumInvocations : ConcLambdaRejects(i)

HookResolved == \E i \in 1..NumInvocations : ConcHookResolves(i)

HookRejected == \E i \in 1..NumInvocations : ConcHookRejects(i)

Returned == \E i \in 1..NumInvocations : ConcReturn(i)

----------------------------------------------------------------------------
(* Specifications *)

InitRest ==
    /\ invocations = [i \in 1..NumInvocations |-> IdleInvocation]
    /\ cells = [c \in 1..NumInvocations |-> NoState]
    /\ fixed = defaultHook
    /\ hooks = defaultHook
    /\ pc = "undecorated"
    /\ input = [event |-> Undefined, context |-> Undefined]
    /\ idx = 0
    /\ state = NoState
    /\ inProgress = {}
    /\ calls = <<>>
    /\ arg = NoArg
    /\ last = NoSettle
    /\ thrown = <<>>
    /\ result = Pending

\* the decorator and one invocation of the decorated handler
Init ==
    /\ variant = "variadic"
    /\ \/ /\ config = Undefined
          /\ hooksArr \in RunInputs
       \/ /\ config \in Configs
          /\ \E p \in OneCallInputs : hooksArr = Append(p, ConfigAsPartial(config))
    /\ InitRest

Next ==
    \/ UseHooks
    \/ WithHooks
    \/ Invoke
    \/ StartBefore
    \/ CallLambda
    \/ LambdaResolves
    \/ LambdaRejects
    \/ StartAfter
    \/ StartOnError
    \/ HookResolves
    \/ HookResolvesNoState
    \/ HookRejects
    \/ ReturnAfterLoop
    \/ ReturnAfterCatch

Spec == Init /\ [][Next]_vars

\* the single-config useHooks of index.ts 26-61, and its caller
InitSingle ==
    /\ variant = "single"
    /\ config = Undefined
    /\ hooksArr \in OneCallInputs
    /\ InitRest

NextSingle ==
    \/ UseHooksSingle
    \/ CallerMutates
    \/ WithHooks
    \/ Invoke
    \/ StartBefore
    \/ CallLambda
    \/ LambdaResolves
    \/ LambdaRejects
    \/ StartAfter
    \/ StartOnError
    \/ HookResolves
    \/ HookResolvesNoState
    \/ HookRejects
    \/ ReturnAfterLoop
    \/ ReturnAfterCatch

SpecSingle == InitSingle /\ [][NextSingle]_vars

\* the variadic useHooks with a caller that changes, between decoration and
\* invocation, an object it passed
NextDeferred ==
    \/ CallerMutates
    \/ Next

SpecDeferred == Init /\ [][NextDeferred]_vars

\* the steps the handler takes by itself once the promise it awaited has
\* settled: the runtime runs them without waiting for anything
ExecutorStep ==
    \/ StartBefore
    \/ CallLambda
    \/ StartAfter
    \/ StartOnError
    \/ ReturnAfterLoop
    \/ ReturnAfterCatch

\* one invocation whose own steps are always taken; whether a hook or the
\* lambda ever settles is left to them
InitLive ==
    /\ variant = "variadic"
    /\ config = Undefined
    /\ hooksArr \in OneCallInputs
    /\ InitRest

SpecLive == InitLive /\ [][Next]_vars /\ WF_vars(ExecutorStep)

\* hook sets with and without handleUnexpectedError among the onError hooks
UnexpectedInputs ==
    {<<[before |-> b, after |-> a, onError |-> o]>> :
        b \in {<<>>, <<11>>}, a \in {Absent, <<12>>},
        o \in {UnexpectedErrorHooks, UnexpectedErrorHooks \o <<13>>,
               <<13>> \o UnexpectedErrorHooks, <<13>>}}

InitUnexpected ==
    /\ variant = "variadic"
    /\ config = Undefined
    /\ hooksArr \in UnexpectedInputs
    /\ InitRest

SpecUnexpected == InitUnexpected /\ [][Next]_vars

\* the variadic executor with and without the empty-after shortcut
InitShortcut ==
    /\ variant \in {"variadic", "noShortcut"}
    /\ config = Undefined
    /\ hooksArr \in RunInputs
    /\ InitRest

SpecShortcut == InitShortcut /\ [][Next]_vars

\* one decorated handler invoked several times, the invocations interleaved
\* at their awaits
InitConc ==
    /\ variant = "variadic"
    /\ config = Undefined
    /\ hooksArr \in ConcInputs
    /\ InitRest

NextConc ==
    \/ UseHooks
    \/ WithHooks
    \/ Invoked
    \/ HookStarted
    \/ LambdaCalled
    \/ LambdaResolved
    \/ LambdaRejected
    \/ HookResolved
    \/ HookRejected
    \/ Returned

SpecConc == InitConc /\ [][NextConc]_vars

\* the merger alone, on every input of CombineInputs
InitCombine ==
    /\ variant = "variadic"
    /\ config = Undefined
    /\ hooksArr \in CombineInputs
    /\ InitRest

NextCombine == UseHooks

SpecCombine == InitCombine /\ [][NextCombine]_vars

----------------------------------------------------------------------------
(* Properties *)

KindCalls(kind) == SelectSeq(calls, LAMBDA c : c.kind = kind)

\* the calls list[1], ..., list[n] of one phase, in list order
ExpectedCalls(kind, list, n) == [i \in 1..n |-> HookCall(kind, i, list[i])]

AllBefore == ExpectedCalls("before", hooks.before, Len(hooks.before))
AllAfter == ExpectedCalls("after", hooks.after, Len(hooks.after))
AllOnError == ExpectedCalls("onError", hooks.onError, Len(hooks.onError))

IsPrefix(a, b) == Len(a) <= Len(b) /\ a = SubSeq(b, 1, Len(a))

\* the first throw came out of the try block (a before hook, the lambda or
\* an after hook)
ThrownInTry ==
    /\ Len(thrown) >= 1
    /\ thrown[1].by.kind \in {"before", "lambda", "after"}

\* C1: when no hook sets exit and nothing throws, the calls of an invocation
\* are before[1..n] in list order, the lambda once, after[1..m] in list order,
\* each once, and no onError hook; until then the calls made are a prefix of
\* that sequence.
C1_NormalRunOrder ==
    thrown = <<>> =>
        /\ IsPrefix(calls, AllBefore \o <<LambdaCall>> \o AllAfter)
        /\ (pc = "done" /\ ~state.exit) =>
               calls = AllBefore \o <<LambdaCall>> \o AllAfter

C1_Witness ==
    /\ pc = "done"
    /\ thrown = <<>>
    /\ ~state.exit
    /\ Len(hooks.before) = 2
    /\ Len(hooks.after) = 2
    /\ Len(calls) = 5

\* C2: once the k-th before hook has resolved with exit = true and response
\* r, the handler has resolved with r, and the only calls of the invocation
\* are before[1..k]: no later before hook, no lambda, no after hook, no
\* onError hook.
C2_BeforeExit ==
    (last.call.kind = "before" /\ last.outcome = "resolved" /\ last.exit) =>
        /\ pc = "done"
        /\ result = Resolved(last.value)
        /\ inProgress = {}
        /\ calls = ExpectedCalls("before", hooks.before, last.call.idx)

C2_Witness ==
    /\ last.call.kind = "before"
    /\ last.outcome = "resolved"
    /\ last.exit
    /\ last.call.idx = 1
    /\ last.value = "r1"
    /\ Len(hooks.before) = 2
    /\ Len(hooks.after) >= 1
    /\ Len(hooks.onError) >= 1

\* C3: when the lambda throws e, every onError hook is called with a state
\* whose error is e, the onError hooks are called in list order, and no after
\* hook is called.
C3_LambdaThrows ==
    (Len(thrown) >= 1 /\ thrown[1].by = LambdaCall) =>
        /\ \A c \in inProgress : c.kind = "onError" => arg.error = thrown[1].value
        /\ calls = AllBefore \o <<LambdaCall>> \o KindCalls("onError")
        /\ IsPrefix(KindCalls("onError"), AllOnError)

C3_Witness ==
    /\ Len(thrown) >= 1
    /\ thrown[1].by = LambdaCall
    /\ thrown[1].value = "e2"
    /\ Len(hooks.after) >= 1
    /\ Len(hooks.onError) = 2
    /\ HookCall("onError", 2, hooks.onError[2]) \in inProgress
    /\ arg.error = "e2"

\* C4: when a before hook, the lambda or an after hook throws e and the
\* onError list is empty, the handler's promise rejects with e.
C4_EmptyOnErrorRejects ==
    (pc = "done" /\ ThrownInTry /\ Len(hooks.onError) = 0) =>
        result = Rejected(thrown[1].value)

\* C5: once the j-th onError hook has thrown f, the handler has rejected with
\* f, and that call is the last call of the invocation: no later onError hook
\* and no hook of any other list.
C5_OnErrorThrowIsFatal ==
    (last.call.kind = "onError" /\ last.outcome = "rejected") =>
        /\ pc = "done"
        /\ result = Rejected(last.value)
        /\ inProgress = {}
        /\ calls[Len(calls)] = last.call
        /\ KindCalls("onError") =
               ExpectedCalls("onError", hooks.onError, last.call.idx)

C5_Witness ==
    /\ last.call.kind = "onError"
    /\ last.outcome = "rejected"
    /\ last.call.idx = 1
    /\ Len(hooks.onError) = 2
    /\ last.value = "e2"
    /\ thrown[1].value = "e1"

\* C6: with an empty after list, once the lambda has resolved with r the
\* handler has resolved with r and the calls are before[1..n] and the lambda,
\* no after or onError hook; with all three lists empty the lambda is the
\* only call and is given the inbound event and context.
C6_EmptyAfter ==
    /\ (last.call = LambdaCall /\ last.outcome = "resolved"
            /\ Len(hooks.after) = 0) =>
           /\ pc = "done"
           /\ result = Resolved(last.value)
           /\ inProgress = {}
           /\ calls = AllBefore \o <<LambdaCall>>
    /\ (hooks = defaultHook /\ calls # <<>>) =>
           /\ calls = <<LambdaCall>>
           /\ arg.event = input.event
           /\ arg.context = input.context

C6_Witness ==
    /\ last.call = LambdaCall
    /\ last.outcome = "resolved"
    /\ Len(hooks.after) = 0
    /\ Len(hooks.before) = 2
    /\ Len(hooks.onError) >= 1
    /\ result = Resolved("r2")

\* the field f of p1, ..., pn concatenated, a missing field counting as empty
RECURSIVE Concatenated(_, _)
Concatenated(f, arr) ==
    IF arr = <<>> THEN <<>>
    ELSE (IF Head(arr)[f] = Absent THEN <<>> ELSE Head(arr)[f])
             \o Concatenated(f, Tail(arr))

\* C7: combineHooks(p1..pn) has, in each of before, after and onError, the
\* concatenation p1.f ++ ... ++ pn.f, a missing field counting as the empty
\* list; combineHooks of no partial has three empty lists.
C7_CombineConcatenates ==
    pc = "decorated" =>
        /\ \A f \in Fields : hooks[f] = Concatenated(f, hooksArr)
        /\ hooksArr = <<>> => \A f \in Fields : hooks[f] = <<>>

C7_Witness ==
    /\ pc = "decorated"
    /\ Len(hooksArr) = 2
    /\ hooksArr[1].before = <<2, 1>>
    /\ hooksArr[2].before = <<1>>
    /\ hooksArr[1].after = Absent
    /\ hooksArr[2].after = <<2, 1>>
    /\ hooks.before = <<2, 1, 1>>
    /\ hooks.after = <<2, 1>>

\* C8: when a config value c is given as the second argument of useHooks,
\* every hook is called with a state whose config is c.
C8_ConfigOnState ==
    config # Undefined =>
        \A c \in inProgress : c.kind # "lambda" => arg.config = config

C10_OneAtATime == Cardinality(inProgress) <= 1

C10_Witness ==
    /\ Len(hooks.after) = 2
    /\ inProgress = {HookCall("after", 2, hooks.after[2])}
    /\ Len(calls) = 5

TryKinds == {"before", "lambda", "after"}

\* C12: in one invocation no call is made twice (the lambda and every
\* position of every list at most once), and the catch block is entered at
\* most once.
C12_AtMostOnce ==
    /\ \A i, j \in 1..Len(calls) : calls[i] = calls[j] => i = j
    /\ LET caught == {k \in 1..Len(thrown) : thrown[k].by.kind \in TryKinds}
       IN  \/ Cardinality(caught) <= 1
           \/ /\ Len(thrown) = 2
              /\ thrown[1].by = thrown[2].by
              /\ thrown[2].value = TypeError
              /\ state.typeof = "undefined"

C12_Witness ==
    /\ pc = "done"
    /\ Len(thrown) = 2
    /\ thrown[1].by.kind = "after"
    /\ thrown[2].by.kind = "onError"
    /\ Len(hooks.before) = 2
    /\ Len(calls) = 6

\* C14: once the k-th after hook has resolved with exit = true, the handler
\* has resolved with the response of that state, and the calls of the
\* invocation are the before hooks, the lambda and after[1..k]: no later after
\* hook and no onError hook.
C14_AfterExit ==
    (last.call.kind = "after" /\ last.outcome = "resolved" /\ last.exit) =>
        /\ pc = "done"
        /\ result = Resolved(last.value)
        /\ inProgress = {}
        /\ calls = AllBefore \o <<LambdaCall>>
                       \o ExpectedCalls("after", hooks.after, last.call.idx)

C14_Witness ==
    /\ last.call.kind = "after"
    /\ last.outcome = "resolved"
    /\ last.exit
    /\ last.call.idx = 1
    /\ Len(hooks.after) = 2
    /\ Len(hooks.onError) >= 1
    /\ result = Resolved("r1")

\* C15: the first before hook is given {event, context, exit: false}; every
\* hook is given the state the pipeline holds, which is the state the hook
\* before it returned, with the lambda's result as response after the lambda;
\* the lambda is given the event and context of the state the last before
\* hook returned.
C15_StateThreaded ==
    \A c \in inProgress :
        /\ c.kind = "lambda" =>
               /\ arg.event = state.event
               /\ arg.context = state.context
        /\ c.kind # "lambda" =>
               /\ arg = state
               /\ last.outcome = "resolved" => arg.response = last.value
               /\ (last.outcome = "resolved" /\ last.call.kind # "lambda") =>
                      arg.exit = last.exit
        /\ calls = <<c>> /\ c.kind = "before" =>
               arg = NewState(input.event, input.context)

C15_Witness ==
    /\ LambdaCall \in inProgress
    /\ Len(hooks.before) = 2
    /\ input.event = "ev0"
    /\ arg.event = "ev1"

\* the first throw came from a hook of the given list, and the catch block
\* took it
HookThrew(kind) ==
    /\ Len(thrown) >= 1
    /\ thrown[1].by.kind = kind
    /\ ~(Len(thrown) = 2 /\ thrown[2].by = thrown[1].by)

\* C16: when the k-th before hook throws e, the calls are before[1..k] and
\* then onError hooks in list order, each given error = e: no later before
\* hook, no lambda, no after hook.  When the k-th after hook throws e, the
\* calls are the before hooks, the lambda, after[1..k] and then onError hooks
\* in list order, each given error = e, and the state entering the error
\* phase is the state object as the throwing hook left it, response included.
C16_HookThrows ==
    /\ HookThrew("before") =>
           /\ calls = ExpectedCalls("before", hooks.before, thrown[1].by.idx)
                          \o KindCalls("onError")
           /\ IsPrefix(KindCalls("onError"), AllOnError)
           /\ \A c \in inProgress : arg.error = thrown[1].value
    /\ HookThrew("after") =>
           /\ calls = AllBefore \o <<LambdaCall>>
                          \o ExpectedCalls("after", hooks.after, thrown[1].by.idx)
                          \o KindCalls("onError")
           /\ IsPrefix(KindCalls("onError"), AllOnError)
           /\ \A c \in inProgress : arg.error = thrown[1].value
           /\ calls[Len(calls)].kind = "after" =>
                  \E s \in HookLeftovers(arg) :
                      state = [s EXCEPT !.error = thrown[1].value]

C16_Witness ==
    /\ HookThrew("after")
    /\ thrown[1].by.idx = 1
    /\ Len(hooks.after) = 2
    /\ Len(hooks.onError) = 2
    /\ inProgress = {HookCall("onError", 2, hooks.onError[2])}
    /\ arg.response = "r2"
    /\ arg.error = "e2"

\* C17: the error field of the state is populated exactly when the pipeline
\* is in the error phase or has finished after it; a before hook, an after
\* hook and the lambda are called with error not populated, an onError hook
\* with error populated.
C17_ErrorIffErrorPhase ==
    /\ state.typeof = "object" =>
           (state.error # Undefined <=>
                (pc = "onError" \/ (pc = "done" /\ ThrownInTry)))
    /\ \A c \in inProgress :
           /\ c.kind \in TryKinds => arg.error = Undefined
           /\ c.kind = "onError" => arg.error # Undefined

C17_Witness ==
    /\ Len(hooks.onError) >= 1
    /\ inProgress = {HookCall("onError", 1, hooks.onError[1])}
    /\ thrown[1].by.kind = "before"
    /\ arg.error = "e1"

\* a hook resolved with exit = true
EarlyExit ==
    /\ last.call.kind # "lambda"
    /\ last.outcome = "resolved"
    /\ last.exit

\* C18 as stated: when the handler returns early because a hook returned
\* exit = true, that state's response is populated and is the value returned.
C18_ExitNeedsResponse ==
    EarlyExit =>
        /\ last.value # Undefined
        /\ result = Resolved(last.value)

\* C18: when a hook returns a state with exit = true the handler returns
\* early with that state's response, populated or not.
C18_ExitReturnsResponse ==
    EarlyExit =>
        /\ pc = "done"
        /\ result = Resolved(last.value)

C18_Witness ==
    /\ EarlyExit
    /\ last.call.kind = "before"
    /\ last.value = Undefined
    /\ result = Resolved(Undefined)

\* position in calls of the call that threw first
FirstThrowAt ==
    CHOOSE i \in 1..Len(calls) :
        /\ calls[i] = thrown[1].by
        /\ \A j \in 1..(i - 1) : calls[j] # thrown[1].by

\* C13: in the single-config useHooks, once a before hook, the lambda or an
\* after hook has thrown, error is set, every later call is an onError hook,
\* the onError hooks are called in list order, and all of them when none
\* sets exit or throws.
C13_ErrorsGoToOnError ==
    (Len(thrown) >= 1 /\ state.typeof = "object") =>
        /\ state.error = thrown[1].value
        /\ \A j \in (FirstThrowAt + 1)..Len(calls) : calls[j].kind = "onError"
        /\ IsPrefix(KindCalls("onError"), AllOnError)
        /\ (pc = "done" /\ Len(thrown) = 1 /\ ~state.exit) =>
               KindCalls("onError") = AllOnError

\* C19: with an empty after list the executor without the shortcut goes
\* through an after loop that calls nothing and leaves the state as it is,
\* and both executors end with the calls before[1..n], lambda and the
\* lambda's result as the resolved value.
C19_ShortcutIsOptimisation ==
    (Len(hooks.after) = 0 /\ last.call = LambdaCall
            /\ last.outcome = "resolved") =>
        /\ calls = AllBefore \o <<LambdaCall>>
        /\ thrown = <<>>
        /\ inProgress = {}
        /\ state.response = last.value
        /\ \/ pc = "done" /\ result = Resolved(last.value)
           \/ pc = "after" /\ variant = "noShortcut" /\ result = Pending

C19_Witness ==
    /\ variant = "noShortcut"
    /\ pc = "done"
    /\ Len(hooks.after) = 0
    /\ Len(hooks.before) = 2
    /\ last.call = LambdaCall
    /\ last.outcome = "resolved"
    /\ result = Resolved("r2")

\* C20: the hooks an invocation runs are those of the hook set as it was when
\* useHooks returned, whatever the caller did since to the objects it passed.
C20_HookSetFixed ==
    /\ pc \notin {"undecorated", "decorated", "ready"} => hooks = fixed
    /\ \A i \in 1..Len(calls) :
           calls[i].kind # "lambda" =>
               /\ calls[i].idx <= Len(fixed[calls[i].kind])
               /\ calls[i].hook = fixed[calls[i].kind][calls[i].idx]

\* C11: every invocation starts from its own state {event, context,
\* exit: false} with no response and no error; its state is at every moment
\* what its own steps made of it, its hooks and its lambda are handed that
\* state and its event, and it resolves with its own response, however the
\* other invocations of the same handler interleave with it.
C11_InvocationsIsolated ==
    \A i \in 1..NumInvocations :
        LET v == invocations[i]
            s == cells[StateCell(i)]
        IN  v.pc # "idle" =>
                /\ s = v.alone
                /\ s.event \in Events
                /\ (v.pc = "before" /\ v.idx = 1 /\ ~v.awaiting) =>
                       s = NewState(v.event, Context)
                /\ (v.awaiting /\ v.pc = "lambda") =>
                       v.arg = LambdaArgs(v.alone)
                /\ (v.awaiting /\ v.pc # "lambda") => v.arg = v.alone
                /\ (v.pc = "done" /\ v.result.status = "resolved") =>
                       v.result = Resolved(v.alone.response)

C11_Witness ==
    \E i, j \in 1..NumInvocations :
        /\ i # j
        /\ invocations[i].pc = "done"
        /\ invocations[i].result = Resolved("r1")
        /\ invocations[i].event = "ev0"
        /\ invocations[j].pc = "after"
        /\ invocations[j].awaiting
        /\ invocations[j].event = "ev1"
        /\ cells[StateCell(j)].response = "r2"
        /\ cells[StateCell(i)].response = "r1"

\* C21: decorating changes none of its inputs: the step that takes useHooks
\* from called to returned leaves every partial hook object the caller
\* passed, and its arrays, as they were.
C21_InputsUntouched ==
    [][pc = "undecorated" => hooksArr' = hooksArr]_vars

\* a field of a partial hook object, an absent one read as empty
ReadField(p, f) == IF p[f] = Absent THEN <<>> ELSE p[f]

\* {before: a.before ++ b.before, after: ..., onError: ...}
ConcatPartials(a, b) == [f \in Fields |-> ReadField(a, f) \o ReadField(b, f)]

\* C22: the handler made by useHooks(a, b) closes over the hook set that
\* useHooks of the one concatenated object would close over, and every
\* hook it calls is the hook at that position of the concatenated lists.
C22_PairAsConcatenation ==
    (Len(hooksArr) = 2 /\ pc # "undecorated") =>
        LET one == ConcatPartials(hooksArr[1], hooksArr[2])
        IN  /\ hooks = combineHooks(<<one>>)
            /\ \A i \in 1..Len(calls) :
                   calls[i].kind # "lambda" =>
                       /\ calls[i].idx <= Len(one[calls[i].kind])
                       /\ calls[i].hook = one[calls[i].kind][calls[i].idx]

C22_Witness ==
    /\ Len(hooksArr) = 2
    /\ hooksArr[1].before = <<11>>
    /\ hooksArr[2].before = <<21>>
    /\ hooksArr[1].onError = Absent
    /\ hooksArr[2].after = <<21>>
    /\ pc = "done"
    /\ result.status = "resolved"
    /\ KindCalls("before") = <<HookCall("before", 1, 11),
                               HookCall("before", 2, 21)>>
    /\ Len(KindCalls("after")) >= 1

\* C23: until the decorated handler is called with (event, context) no hook
\* and no lambda has been called and there is neither state nor result;
\* the hook set is merged when useHooks is called and is still that set
\* at every invocation, so a hook the caller adds to an argument afterwards
\* is never called.
C23_Deferred ==
    /\ pc \in {"undecorated", "decorated", "ready"} =>
           /\ calls = <<>>
           /\ inProgress = {}
           /\ state = NoState
           /\ result = Pending
    /\ pc # "undecorated" => hooks = fixed
    /\ \A i \in 1..Len(calls) : calls[i].hook # ExtraHooks[1]

C23_Witness ==
    /\ pc = "done"
    /\ Len(hooksArr) >= 1
    /\ hooksArr[1].before = <<11>> \o ExtraHooks
    /\ hooks.before = <<11>>
    /\ Len(calls) >= 2
    /\ calls[1] = HookCall("before", 1, 11)
    /\ calls[2] = LambdaCall

\* |before| + 1 + |after| + |onError|
CallBound == Len(hooks.before) + 1 + Len(hooks.after) + Len(hooks.onError)

Invoking == pc \in {"before", "lambda", "after", "onError"}

\* C24: an invocation makes at most |before| + 1 + |after| + |onError|
\* calls; while a call has not settled the invocation has not settled and
\* starts no other call; if every call that is started settles, every
\* invocation settles; if a call never settles, the invocation never does.
C24_Termination ==
    /\ [](Len(calls) <= CallBound)
    /\ [](inProgress # {} => (pc # "done" /\ result = Pending))
    /\ [][inProgress # {} => calls' = calls]_vars
    /\ (inProgress # {} ~> inProgress = {}) => (Invoking ~> pc = "done")
    /\ <>[](inProgress # {}) => [](result = Pending)

C24_Witness ==
    /\ pc = "done"
    /\ Len(hooks.before) = 2
    /\ Len(hooks.after) >= 1
    /\ Len(hooks.onError) >= 1
    /\ Len(calls) = CallBound
    /\ result.status = "resolved"

FirstIsUnexpected ==
    /\ Len(hooks.onError) >= 1
    /\ hooks.onError[1] = UnexpectedErrorHooks[1]

\* a before hook, the lambda or an after hook has thrown
ThrewInTry ==
    /\ Len(thrown) >= 1
    /\ thrown[1].value \in Errors
    /\ thrown[1].by.kind \in TryKinds

\* C25: with handleUnexpectedError as first onError hook, an invocation in
\* which a before hook, the lambda or an after hook throws e never rejects;
\* it calls that hook and no other onError hook, and ends resolved, exit
\* set, with the response {statusCode: e's statusCode or else 500,
\* body: the JSON text of {error: e's message or else e}}.
C25_UnexpectedErrorHandled ==
    (FirstIsUnexpected /\ ThrewInTry) =>
        LET e == thrown[1].value
            handler == HookCall("onError", 1, UnexpectedErrorHooks[1])
        IN  /\ result.status # "rejected"
            /\ Len(thrown) = 1
            /\ IsPrefix(KindCalls("onError"), <<handler>>)
            /\ pc \in {"onError", "done"}
            /\ pc = "done" =>
                   /\ KindCalls("onError") = <<handler>>
                   /\ state.exit
                   /\ result.status = "resolved"
                   /\ result.value.statusCode =
                          (IF e = "e2" THEN 404 ELSE DefaultStatusCode)
                   /\ result.value.statusCode >= 400
                   /\ result.value.body =
                          (IF e = "e2" THEN "{\"error\":\"m2\"}"
                           ELSE "{\"error\":\"e1\"}")

C25_Witness ==
    /\ FirstIsUnexpected
    /\ Len(hooks.onError) = 2
    /\ ThrewInTry
    /\ thrown[1].by.kind = "after"
    /\ thrown[1].value = "e2"
    /\ pc = "done"
    /\ result = Resolved([statusCode |-> 404, body |-> "{\"error\":\"m2\"}"])

\* C26: a before or after hook that set exit on the state it was given and
\* then threw e does not end the invocation: the error phase is entered
\* with exit still set and error = e; when the first onError hook, handed
\* that state, resolves with exit as it was, the invocation resolves with
\* state.response and that hook is the only onError hook called.
C26_ExitThenThrow ==
    /\ (last.call.kind \in {"before", "after"} /\ last.outcome = "rejected"
            /\ last.exit) =>
           /\ thrown = <<[by |-> last.call, value |-> last.value]>>
           /\ state.exit
           /\ state.error = last.value
           /\ IF Len(hooks.onError) = 0
              THEN /\ KindCalls("onError") = <<>>
                   /\ \/ pc = "onError" /\ result = Pending
                      \/ pc = "done" /\ result = Resolved(state.response)
              ELSE /\ pc = "onError"
                   /\ result = Pending
                   /\ IsPrefix(KindCalls("onError"),
                               <<HookCall("onError", 1, hooks.onError[1])>>)
    /\ (last.call.kind = "onError" /\ last.call.idx = 1
            /\ last.outcome = "resolved" /\ arg.exit /\ last.exit) =>
           /\ pc = "done"
           /\ result = Resolved(last.value)
           /\ KindCalls("onError") = <<last.call>>

C26_Witness ==
    /\ Len(hooks.onError) = 2
    /\ pc = "done"
    /\ Len(thrown) = 1
    /\ thrown[1].by.kind = "before"
    /\ last.call = HookCall("onError", 1, hooks.onError[1])
    /\ last.outcome = "resolved"
    /\ arg.exit
    /\ last.exit
    /\ result = Resolved(Undefined)

\* C27: when a before or after hook resolves to undefined or null, the
\* invocation is over at once: it rejects with the TypeError raised in the
\* catch block, that hook is the last call made, and no onError hook is
\* called.
C27_MissingStateIsFatal ==
    (last.call.kind \in {"before", "after"} /\ last.outcome = "resolved"
            /\ state.typeof = "undefined") =>
        /\ pc = "done"
        /\ result = Rejected(TypeError)
        /\ inProgress = {}
        /\ calls[Len(calls)] = last.call
        /\ KindCalls("onError") = <<>>
        /\ thrown = <<[by |-> last.call, value |-> TypeError],
                      [by |-> last.call, value |-> TypeError]>>

C27_Witness ==
    /\ last.call.kind = "after"
    /\ last.outcome = "resolved"
    /\ state.typeof = "undefined"
    /\ Len(hooks.onError) >= 1
    /\ Len(hooks.before) >= 1
    /\ pc = "done"
    /\ result = Rejected(TypeError)

====
